---------------------------- MODULE Spec2Model ----------------------------
(***************************************************************************)
(* A model of the show-control synchroniser: the query/response           *)
(* correlator (src/osc_handler.py, OSCHandler.query_and_wait) and the two  *)
(* cue synchronisation procedures (src/cue.py, CueManager).                *)
(*                                                                         *)
(* The model follows the control flow and the state changes of the code.   *)
(* All tasks run on one asyncio event loop: the code between two awaits    *)
(* is one atomic action.  The transport, its dispatcher and the remote     *)
(* consoles are the environment: a message may be delivered on any         *)
(* address at any time, a send may fail, a task may be cancelled at any    *)
(* await.  The shape of payloads (tuples, JSON text, keyword names) is     *)
(* abstracted to the values the code reads out of them.                    *)
(***************************************************************************)
EXTENDS Integers, Sequences, FiniteSets, TLC

(***************************************************************************)
(* Bounds of the model.                                                    *)
(***************************************************************************)
\* Number of concurrent query_and_wait calls.
NumCalls == 2
\* The ceiling `timeout` of the busy wait, in units of one check_interval
\* sleep (the code's 5.0 s / 0.1 s, scaled down).
TimeoutTicks == 2

\* Largest number of entries (at all depths) of a console-A root-list reply.
MaxEntries == 4
\* Number of sync passes of a console in one run.
MaxPasses == 2
\* Largest cue-list count console B reports.
MaxLists == 2
\* Largest cue count console B reports for one cue-list.
MaxListCues == 2
\* Largest number of connection attempts of one client.
MaxAttempts == 3
\* Largest number of registry operations called on one console.
MaxOps == 2
\* Largest number of entries of a root-list reply in the runs that call
\* registry operations.
MaxOpEntries == 2
\* Largest cue-list count, and cue count of a cue-list, console B reports in
\* those runs.
MaxOpLists == 1

Calls == 1..NumCalls
\* The response addresses and the reply payloads of the model.
Addrs == {"/reply/a", "/reply/b"}
Payloads == {"p1", "p2"}

\* A future without a result; a result is the tuple <<address, payload>>.
NoResult == <<>>

VARIABLES
    \* ---- correlator (OSCHandler.query_and_wait) ----
    pc,         \* pc[t]: where call t is
    addr,       \* addr[t]: response_address of call t
    handlers,   \* dispatcher.handlers: address -> the calls whose
                \* response_handler is mapped to it
    elapsed,    \* elapsed[t]: loop.time() - start_time while t is in the busy
                \* wait (start_time is not read after it), saturating
    napped,     \* napped[t]: the current asyncio.sleep(check_interval) is over
    future,     \* future[t]: response_future of call t
    result,     \* result[t]: what call t returned
    firstMsg,   \* history: the first message dispatched to t's handler
    lastMsg,    \* history: the last message dispatched to t's handler
    waited,     \* history: how long t has awaited response_future, saturating
    \* ---- console A (CueManager.populate_qlab_cue_dict) ----
    apc,        \* where the console-A pass is
    qlab_cues,  \* self.qlab_cues: the dict uid -> cue, as its items in order
    cueObjs,    \* the QLabCue objects; a cue is named by its index here
    aidx,       \* add_extra_qlab_data: position in qlab_cues.items()
    astep,      \* add_extra_qlab_data: the attribute query awaited
    aremote,    \* the attributes console A reports in this pass
    apasses,    \* number of console-A passes started
    areply,     \* history: the root-list data walked in this pass
    afailed,    \* history: the attribute query that failed in this pass
    aqueries,   \* history: number of queries this pass has sent
    \* ---- console B (CueManager.populate_eos_cue_dict) ----
    bpc,        \* where the console-B pass is
    eos_cues,   \* self.eos_cues: the dict uid -> cue-list, as its items
    listObjs,   \* the EOSCueList objects; a cue-list is named by its index
    eosObjs,    \* the EOSCue objects; a cue is named by its index
    response,   \* the local `response`: the payload last assigned to it
    cue_list_count,         \* the local of that name
    cue_list,               \* the index of the outer loop
    cue_list_obj,           \* the local of that name: a cue-list
    cue_count_in_cue_list,  \* the local of that name
    cue,                    \* the index of the inner loop
    bremote,    \* what console B reports in this pass
    bpasses,    \* number of console-B passes started
    bqueries,   \* history: number of queries this pass has sent
    bmissing,   \* history: the query of this pass that yielded None
    cueReplies, \* history: the indexed cue replies of this pass, each
                \* <<cue-list, uid, part number>>
    \* ---- connection manager (OSCHandler.run, start_client) ----
    rpc,        \* where OSCHandler.run is
    spc,        \* spc[c]: where start_client of client c is
    transport_address,  \* transport_address[c]: the server address of client c
    server_address,     \* server_address[c]: the local of that name in the
                        \* innermost start_client frame of c
    attempts,   \* attempts[c]: connection attempts (client.run() tasks created)
    alive,      \* alive[c]: the client.run() tasks of c that have not ended
    prompts,    \* history: prompts[c]: prompts shown for c
    resolved,   \* history: resolved[c]: the resolutions of the prompts for c
    qlab_connected,     \* self.qlab_connected
    hpc,        \* where connect_to_qlab is
    herror,     \* the exception connect_to_qlab raised
    hqueries,   \* history: the query addresses connect_to_qlab has sent
    hreply,     \* history: the text of the workspace-discovery reply
    \* ---- registry operations (CueManager add_* and remove_*) ----
    aops,       \* number of registry operations called on console A
    bops,       \* number of registry operations called on console B
    lastOp,     \* history: the registry operation called last
    \* ---- timecode conversions (utils.py) ----
    tpc,        \* where the round trip of a timecode is
    tin,        \* the timecode text given to timecode_to_float
    tfps,       \* the fps of both calls
    tseconds,   \* the float timecode_to_float returned
    tout        \* the text float_to_timecode returned

qvars == <<pc, addr, handlers, elapsed, napped, future, result, firstMsg,
           lastMsg, waited>>

avars == <<apc, qlab_cues, cueObjs, aidx, astep, aremote, apasses, areply,
           afailed, aqueries>>

bvars == <<bpc, eos_cues, listObjs, eosObjs, response, cue_list_count,
           cue_list, cue_list_obj, cue_count_in_cue_list, cue, bremote,
           bpasses, cueReplies, bqueries, bmissing>>

cvars == <<rpc, spc, transport_address, server_address, attempts, alive, prompts,
           resolved, qlab_connected, hpc, herror, hqueries, hreply>>

\* What the actions of the correlator, of console A, of console B and of
\* the connection manager leave alone.
rvars == <<aops, bops, lastOp>>
tvars == <<tpc, tin, tfps, tseconds, tout>>

\* The variables of a console other than its registry.
apass == <<apc, cueObjs, aidx, astep, aremote, apasses, areply, afailed,
           aqueries>>
bpass == <<bpc, listObjs, eosObjs, response, cue_list_count, cue_list,
           cue_list_obj, cue_count_in_cue_list, cue, bremote, bpasses,
           cueReplies, bqueries, bmissing>>

nonQ == <<avars, bvars, cvars, rvars, tvars>>
nonA == <<qvars, bvars, cvars, tvars>>
nonB == <<qvars, avars, cvars, tvars>>
nonC == <<qvars, avars, bvars, rvars, tvars>>

vars == <<pc, addr, handlers, elapsed, napped, future, result, firstMsg,
          lastMsg, waited,
          apc, qlab_cues, cueObjs, aidx, astep, aremote, apasses, areply,
          afailed, aqueries,
          bpc, eos_cues, listObjs, eosObjs, response, cue_list_count,
          cue_list, cue_list_obj, cue_count_in_cue_list, cue, bremote,
          bpasses, cueReplies, bqueries, bmissing,
          rpc, spc, transport_address, server_address, attempts, alive, prompts,
          resolved, qlab_connected, hpc, herror, hqueries, hreply,
          aops, bops, lastOp,
          tpc, tin, tfps, tseconds, tout>>

Finished == {"returned", "busy_timeout", "send_failed",
             "cancelled_poll", "cancelled_send", "cancelled_wait"}

InitQ ==
    /\ pc = [t \in Calls |-> "idle"]
    /\ addr = [t \in Calls |-> "/reply/a"]
    /\ handlers = [a \in Addrs |-> {}]
    /\ elapsed = [t \in Calls |-> 0]
    /\ napped = [t \in Calls |-> FALSE]
    /\ future = [t \in Calls |-> NoResult]
    /\ result = [t \in Calls |-> NoResult]
    /\ firstMsg = [t \in Calls |-> NoResult]
    /\ lastMsg = [t \in Calls |-> NoResult]
    /\ waited = [t \in Calls |-> 0]

(***************************************************************************)
(* The dispatch table.                                                     *)
(***************************************************************************)
\* dispatcher.handlers.get(response_address): truthy when a handler is mapped.
HasHandler(h, a) == h[a] # {}

\* A call that sends its query without mapping its handler.
MapSkipped(h, a, t) == h

\* dispatcher.map(response_address, response_handler)
Map(h, a, t) == [h EXCEPT ![a] = @ \cup {t}]

\* dispatcher.unmap(response_address)
Unmap(h, a) == [h EXCEPT ![a] = {}]

\* A finally clause that leaves the handler mapped.
CleanupSkipped(h, a) == h

\* The finally clause: unmap when a handler is mapped.
Cleanup(h, a) == IF HasHandler(h, a) THEN Unmap(h, a) ELSE h

\* A loop guard that never waits.
MustWaitNever(h, a) == FALSE

\* A loop guard that waits for the whole table to be empty.
MustWaitAnyAddress(h, a) == \E b \in Addrs : HasHandler(h, b)

\* The guard of the busy-wait loop for a call on address a.
MustWait(h, a) == HasHandler(h, a)

\* A timeout test that never fires.
TimedOutNever(e) == FALSE

\* The timeout test after a sleep.
TimedOut(e) == e > TimeoutTicks

\* A response_handler without the done() test.
ResolveAlways(f, msg) == msg

\* response_handler: resolve the future unless it is done.
Resolve(f, msg) == IF f = NoResult THEN msg ELSE f

(***************************************************************************)
(* query_and_wait, one action per stretch between awaits.                  *)
(***************************************************************************)
\* The call starts (calls are numbered in the order they start): start_time
\* is taken and the loop guard is tested.  With
\* the address free the handler is mapped and add_message is awaited.
Call(t, a) ==
    /\ pc[t] = "idle"
    /\ \A u \in Calls : u < t => pc[u] # "idle"
    /\ addr' = [addr EXCEPT ![t] = a]
    /\ elapsed' = [elapsed EXCEPT ![t] = 0]
    /\ IF MustWait(handlers, a)
       THEN /\ pc' = [pc EXCEPT ![t] = "sleeping"]
            /\ napped' = [napped EXCEPT ![t] = FALSE]
            /\ UNCHANGED handlers
       ELSE /\ pc' = [pc EXCEPT ![t] = "sending"]
            /\ handlers' = Map(handlers, a, t)
            /\ UNCHANGED napped
    /\ UNCHANGED <<future, result, firstMsg, lastMsg, waited>>
    /\ UNCHANGED nonQ

\* asyncio.sleep(check_interval) returns: the timeout test, then the loop
\* guard again.
Wake(t) ==
    /\ pc[t] = "sleeping"
    /\ napped[t]
    /\ IF TimedOut(elapsed[t])
       THEN /\ pc' = [pc EXCEPT ![t] = "busy_timeout"]
            /\ UNCHANGED <<handlers, napped, elapsed>>
       ELSE IF MustWait(handlers, addr[t])
       THEN /\ napped' = [napped EXCEPT ![t] = FALSE]
            /\ UNCHANGED <<pc, handlers, elapsed>>
       ELSE /\ pc' = [pc EXCEPT ![t] = "sending"]
            /\ handlers' = Map(handlers, addr[t], t)
            /\ napped' = [napped EXCEPT ![t] = FALSE]
            /\ elapsed' = [elapsed EXCEPT ![t] = 0]
    /\ UNCHANGED <<addr, future, result, firstMsg, lastMsg, waited>>
    /\ UNCHANGED nonQ

\* client.add_message returns: the query is with the transport, the call
\* awaits response_future.
SendDone(t) ==
    /\ pc[t] = "sending"
    /\ pc' = [pc EXCEPT ![t] = "waiting"]
    /\ UNCHANGED <<addr, handlers, elapsed, napped, future, result, firstMsg, lastMsg, waited>>
    /\ UNCHANGED nonQ

\* client.add_message raises: the await is outside the try, the exception
\* leaves query_and_wait without the finally clause.
SendFail(t) ==
    /\ pc[t] = "sending"
    /\ pc' = [pc EXCEPT ![t] = "send_failed"]
    /\ UNCHANGED <<addr, handlers, elapsed, napped, future, result, firstMsg, lastMsg, waited>>
    /\ UNCHANGED nonQ

\* The task is cancelled while it awaits client.add_message.
CancelSend(t) ==
    /\ pc[t] = "sending"
    /\ pc' = [pc EXCEPT ![t] = "cancelled_send"]
    /\ UNCHANGED <<addr, handlers, elapsed, napped, future, result, firstMsg, lastMsg, waited>>
    /\ UNCHANGED nonQ

\* The task is cancelled while it sleeps in the busy wait.
CancelPoll(t) ==
    /\ pc[t] = "sleeping"
    /\ pc' = [pc EXCEPT ![t] = "cancelled_poll"]
    /\ napped' = [napped EXCEPT ![t] = FALSE]
    /\ elapsed' = [elapsed EXCEPT ![t] = 0]
    /\ UNCHANGED <<addr, handlers, future, result, firstMsg, lastMsg, waited>>
    /\ UNCHANGED nonQ

\* The dispatcher receives a message on address a and calls every handler
\* mapped to it.
Deliver(a, v) ==
    /\ future' = [t \in Calls |->
                    IF t \in handlers[a] THEN Resolve(future[t], <<a, v>>)
                    ELSE future[t]]
    /\ firstMsg' = [t \in Calls |->
                    IF t \in handlers[a] /\ firstMsg[t] = NoResult
                    THEN <<a, v>> ELSE firstMsg[t]]
    /\ lastMsg' = [t \in Calls |->
                    IF t \in handlers[a] THEN <<a, v>> ELSE lastMsg[t]]
    /\ UNCHANGED <<pc, addr, handlers, elapsed, napped, result, waited>>
    /\ UNCHANGED nonQ

\* response_future has a result: the call returns it, through finally.
Return(t) ==
    /\ pc[t] = "waiting"
    /\ future[t] # NoResult
    /\ pc' = [pc EXCEPT ![t] = "returned"]
    /\ result' = [result EXCEPT ![t] = future[t]]
    /\ handlers' = Cleanup(handlers, addr[t])
    /\ waited' = [waited EXCEPT ![t] = 0]
    /\ UNCHANGED <<addr, elapsed, napped, future, firstMsg, lastMsg>>
    /\ UNCHANGED nonQ

\* The task is cancelled while it awaits response_future: CancelledError is
\* re-raised through finally.
CancelWait(t) ==
    /\ pc[t] = "waiting"
    /\ pc' = [pc EXCEPT ![t] = "cancelled_wait"]
    /\ handlers' = Cleanup(handlers, addr[t])
    /\ waited' = [waited EXCEPT ![t] = 0]
    /\ UNCHANGED <<addr, elapsed, napped, future, result, firstMsg, lastMsg>>
    /\ UNCHANGED nonQ

\* Time passes by one check interval.
Sat(n) == IF n > TimeoutTicks THEN n ELSE n + 1

Tick ==
    /\ elapsed' = [t \in Calls |->
                    IF pc[t] = "sleeping" THEN Sat(elapsed[t]) ELSE elapsed[t]]
    /\ napped' = [t \in Calls |-> IF pc[t] = "sleeping" THEN TRUE ELSE napped[t]]
    /\ waited' = [t \in Calls |->
                    IF pc[t] = "waiting" THEN Sat(waited[t]) ELSE waited[t]]
    /\ UNCHANGED <<pc, addr, handlers, future, result, firstMsg, lastMsg>>
    /\ UNCHANGED nonQ

NextQ ==
    \/ \E t \in Calls, a \in Addrs : Call(t, a)
    \/ \E t \in Calls : Wake(t)
    \/ \E t \in Calls : SendDone(t)
    \/ \E t \in Calls : SendFail(t)
    \/ \E t \in Calls : CancelSend(t)
    \/ \E t \in Calls : CancelPoll(t)
    \/ \E a \in Addrs, v \in Payloads : Deliver(a, v)
    \/ \E t \in Calls : Return(t)
    \/ \E t \in Calls : CancelWait(t)
    \/ Tick

(***************************************************************************)
(* Python dicts, as the sequence of their items <<key, value>> in          *)
(* insertion order.                                                        *)
(***************************************************************************)
EmptyDict == <<>>

DictKeys(d) == {d[i][1] : i \in DOMAIN d}

DictValues(d) == {d[i][2] : i \in DOMAIN d}

DictHas(d, k) == \E i \in DOMAIN d : d[i][1] = k

\* d[k]
DictGet(d, k) == d[CHOOSE i \in DOMAIN d : d[i][1] = k][2]

\* d[k] = v: a key the dict holds keeps its place.
DictSet(d, k, v) ==
    IF DictHas(d, k)
    THEN [i \in DOMAIN d |-> IF d[i][1] = k THEN <<k, v>> ELSE d[i]]
    ELSE Append(d, <<k, v>>)

(***************************************************************************)
(* Console A: the cue objects and the root-list replies.                   *)
(***************************************************************************)
\* The reference None in parent_cue.
NoCue == 0

\* QLabCue(uid=..., parent_cue=...): the other fields at their defaults
\* (number, type and label are copied from the reply and not modelled).
QLabCue(uid, parent) ==
    [uid |-> uid, parent_cue |-> parent, cue_dict |-> EmptyDict,
     duration |-> "0.0", pre_wait_time |-> "0.0", post_wait_time |-> "0.0",
     timecode |-> "0.0", file_target_path |-> "None", target_id |-> "None"]

\* The root-list replies with at most MaxEntries entries: every forest of
\* entries with distinct uids, an entry being [uniqueID, cues].  A forest on
\* the uids 1..n is drawn as a parent array p with p[i] < i (0: a root).
ParentArrays(n) == {p \in [1..n -> 0..n] : \A i \in 1..n : p[i] < i}

RECURSIVE SortedSeq(_)
SortedSeq(S) ==
    IF S = {} THEN <<>>
    ELSE LET m == CHOOSE x \in S : \A y \in S : x <= y
         IN <<m>> \o SortedSeq(S \ {m})

RECURSIVE Entry(_, _, _)
Entry(p, n, i) ==
    [uniqueID |-> i,
     cues |-> LET ch == SortedSeq({c \in 1..n : p[c] = i})
              IN [k \in 1..Len(ch) |-> Entry(p, n, ch[k])]]

RootList(p, n) ==
    LET rs == SortedSeq({c \in 1..n : p[c] = 0})
    IN [k \in 1..Len(rs) |-> Entry(p, n, rs[k])]

RootLists == UNION {{RootList(p, n) : p \in ParentArrays(n)} : n \in 0..MaxEntries}

\* What console A answers to the attribute queries of a pass.
Remotes ==
    [hasFileTargets : BOOLEAN, hasCueTargets : BOOLEAN,
     timecodeText : {"00:00:05:00", "5:00"}]

RemoteData(r, step) ==
    CASE step = "/hasFileTargets" -> r.hasFileTargets
      [] step = "/fileTarget" -> "file"
      [] step = "/hasCueTargets" -> r.hasCueTargets
      [] step = "/cueTargetID" -> "target"
      [] step = "/duration" -> "dur"
      [] step = "/preWait" -> "pre"
      [] step = "/postWait" -> "post"
      [] step = "/timecodeTrigger/text" -> r.timecodeText

InitA ==
    /\ apc = "idle"
    /\ qlab_cues = EmptyDict
    /\ cueObjs = <<>>
    /\ aidx = 0
    /\ astep = ""
    /\ aremote = [hasFileTargets |-> FALSE, hasCueTargets |-> FALSE,
                  timecodeText |-> "5:00"]
    /\ apasses = 0
    /\ areply = <<>>
    /\ afailed = <<>>
    /\ aqueries = 0

(***************************************************************************)
(* solve_nested_qlab_cues and the loop over the roots.  Neither awaits     *)
(* anything that suspends: the whole walk is part of one action.  The      *)
(* state of the walk is [objs, reg]: the objects and self.qlab_cues.       *)
(***************************************************************************)
\* A nested cue built without its parent.
NestedParentNone(parent) == NoCue

\* parent_cue=parent_cue in the constructor call of a nested cue.
NestedParent(parent) == parent

\* A walk that never descends.
HasNestedNever(c) == FALSE

\* 'cues' in c and len(c['cues']) > 0
HasNested(c) == Len(c.cues) > 0

RECURSIVE solve_nested_qlab_cues(_, _, _, _)
solve_nested_qlab_cues(st, parent_cue, cue_data, k) ==
    IF k > Len(cue_data) THEN st
    ELSE LET c == cue_data[k]
             qlab_cue == Len(st.objs) + 1
             linked == [st.objs EXCEPT
                          ![parent_cue].cue_dict = DictSet(@, c.uniqueID, qlab_cue)]
             st1 == [objs |-> Append(linked,
                                     QLabCue(c.uniqueID, NestedParent(parent_cue))),
                     reg |-> DictSet(st.reg, c.uniqueID, qlab_cue)]
             st2 == IF HasNested(c)
                    THEN solve_nested_qlab_cues(st1, qlab_cue, c.cues, 1)
                    ELSE st1
         IN solve_nested_qlab_cues(st2, parent_cue, cue_data, k + 1)

\* for cue_list_data in response['data']: ...
RECURSIVE WalkRoots(_, _, _)
WalkRoots(st, data, k) ==
    IF k > Len(data) THEN st
    ELSE LET r == data[k]
             root_cue == Len(st.objs) + 1
             st1 == [objs |-> Append(st.objs, QLabCue(r.uniqueID, NoCue)),
                     reg |-> DictSet(st.reg, r.uniqueID, root_cue)]
             st2 == IF Len(r.cues) > 0
                    THEN solve_nested_qlab_cues(st1, root_cue, r.cues, 1)
                    ELSE st1
         IN WalkRoots(st2, data, k + 1)

(***************************************************************************)
(* add_extra_qlab_data: the attribute queries of one cue, in order.        *)
(***************************************************************************)
\* The query after `step` answered with `data`; "end" after the last one.
NextAttr(step, data) ==
    CASE step = "/hasFileTargets" -> IF data THEN "/fileTarget" ELSE "/hasCueTargets"
      [] step = "/fileTarget" -> "/hasCueTargets"
      [] step = "/hasCueTargets" -> IF data THEN "/cueTargetID" ELSE "/duration"
      [] step = "/cueTargetID" -> "/duration"
      [] step = "/duration" -> "/preWait"
      [] step = "/preWait" -> "/postWait"
      [] step = "/postWait" -> "/timecodeTrigger/text"
      [] step = "/timecodeTrigger/text" -> "end"

\* What the answer to `step` writes into the cue.
ApplyAttr(obj, step, data) ==
    CASE step = "/fileTarget" -> [obj EXCEPT !.file_target_path = data]
      [] step = "/cueTargetID" -> [obj EXCEPT !.target_id = data]
      [] step = "/duration" -> [obj EXCEPT !.duration = data]
      [] step = "/preWait" -> [obj EXCEPT !.pre_wait_time = data]
      [] step = "/postWait" -> [obj EXCEPT !.pre_wait_time = data]
      [] step = "/timecodeTrigger/text" -> [obj EXCEPT !.timecode = data]
      [] OTHER -> obj

(***************************************************************************)
(* populate_qlab_cue_dict, one action per stretch between awaits.  Each    *)
(* await is one CueManager.query: it yields the reply, or None when        *)
(* query_and_wait timed out or raised.                                     *)
(***************************************************************************)
\* One dict for both registries: clearing one empties the other.
OtherRegistryCleared(other) == EmptyDict

\* self.qlab_cues and self.eos_cues are two dicts: clear() on the registry
\* of a console leaves the registry of the other console as it is.
OtherRegistry(other) == other

\* The pass starts: the registry is cleared (its objects are garbage) and
\* the root list is queried.
StartPassA ==
    /\ apc \in {"idle", "done", "root_failed", "attr_failed"}
    /\ apasses < MaxPasses
    /\ apasses' = apasses + 1
    /\ apc' = "root_query"
    /\ qlab_cues' = EmptyDict
    /\ cueObjs' = <<>>
    /\ aidx' = 0
    /\ astep' = ""
    /\ aremote' \in Remotes
    /\ areply' = <<>>
    /\ afailed' = <<>>
    /\ aqueries' = 1
    /\ eos_cues' = OtherRegistry(eos_cues)
    /\ UNCHANGED <<qvars, bpass, cvars, tvars, rvars>>

\* The root-list query yields None: unpacking it into (address,
\* response_json) raises and ends the pass.
RootNone ==
    /\ apc = "root_query"
    /\ apc' = "root_failed"
    /\ UNCHANGED <<qlab_cues, cueObjs, aidx, astep, aremote, apasses, areply,
                   afailed, aqueries>>
    /\ UNCHANGED <<nonA, rvars>>

\* The root-list reply does not parse or its status is not ok: the pass
\* returns with nothing built.
RootRejected ==
    /\ apc = "root_query"
    /\ apc' = "done"
    /\ UNCHANGED <<qlab_cues, cueObjs, aidx, astep, aremote, apasses, areply,
                   afailed, aqueries>>
    /\ UNCHANGED <<nonA, rvars>>

\* The root-list reply is ok: the tree is built, then add_extra_qlab_data
\* runs up to its first query.
RootOk(data) ==
    /\ apc = "root_query"
    /\ LET st == WalkRoots([objs |-> cueObjs, reg |-> qlab_cues], data, 1)
       IN /\ cueObjs' = st.objs
          /\ qlab_cues' = st.reg
          /\ IF st.reg = EmptyDict
             THEN apc' = "done" /\ aidx' = 0 /\ astep' = ""
             ELSE apc' = "backfill" /\ aidx' = 1 /\ astep' = "/hasFileTargets"
    /\ areply' = data
    /\ aqueries' = IF apc' = "backfill" THEN aqueries + 1 ELSE aqueries
    /\ UNCHANGED <<aremote, apasses, afailed>>
    /\ UNCHANGED <<nonA, rvars>>

\* An attribute query yields None: unpacking it raises and ends the pass.
AttrNone ==
    /\ apc = "backfill"
    /\ apc' = "attr_failed"
    /\ afailed' = <<qlab_cues[aidx][1], astep>>
    /\ UNCHANGED <<qlab_cues, cueObjs, aidx, astep, aremote, apasses, areply,
                   aqueries>>
    /\ UNCHANGED <<nonA, rvars>>

\* An attribute reply does not parse: parse_json gives None, response['data']
\* raises and ends the pass.
AttrUnparsable ==
    /\ apc = "backfill"
    /\ apc' = "attr_failed"
    /\ afailed' = <<qlab_cues[aidx][1], astep>>
    /\ UNCHANGED <<qlab_cues, cueObjs, aidx, astep, aremote, apasses, areply,
                   aqueries>>
    /\ UNCHANGED <<nonA, rvars>>

\* An attribute reply is parsed: its data is written into the cue and the
\* next query is sent, the first one of the next cue after the last
\* attribute; after the last cue the pass returns.
AttrOk ==
    /\ apc = "backfill"
    /\ LET obj == qlab_cues[aidx][2]
           data == RemoteData(aremote, astep)
           next == NextAttr(astep, data)
       IN /\ cueObjs' = [cueObjs EXCEPT ![obj] = ApplyAttr(@, astep, data)]
          /\ IF next # "end"
             THEN astep' = next /\ UNCHANGED <<apc, aidx>>
             ELSE IF aidx < Len(qlab_cues)
             THEN astep' = "/hasFileTargets" /\ aidx' = aidx + 1 /\ UNCHANGED apc
             ELSE astep' = "" /\ aidx' = 0 /\ apc' = "done"
    /\ aqueries' = IF apc' = "backfill" THEN aqueries + 1 ELSE aqueries
    /\ UNCHANGED <<qlab_cues, aremote, apasses, areply, afailed>>
    /\ UNCHANGED <<nonA, rvars>>

NextA ==
    \/ StartPassA
    \/ RootNone
    \/ RootRejected
    \/ \E data \in RootLists : RootOk(data)
    \/ AttrNone
    \/ AttrUnparsable
    \/ AttrOk

(***************************************************************************)
(* Console B: the cue-list and cue objects and the replies.  A payload is  *)
(* the tuple of the arguments the code reads: response[0], response[1],    *)
(* response[2] and response[25] are the elements 1 to 4 here.              *)
(***************************************************************************)
\* EOSCueList(uid=..., number=...)
EOSCueList(uid, number) == [uid |-> uid, number |-> number, cue_list_dict |-> EmptyDict]

\* What an entry of self.eos_cues refers to when it is a cue-list.
ListRef(i) == <<"list", i>>

\* len(timecode) of the timecode texts of the model.
TextLen(text) == IF text = "00:00:05:00" THEN 11 ELSE 4

\* Cue.__post_init__: a timecode text of 11 characters is decoded, any other
\* text becomes None.
PostInitTimecode(text) == IF TextLen(text) = 11 THEN "5.0" ELSE "None"

\* if len(timecode) != 11: timecode = ''
NormaliseTimecode(text) == IF TextLen(text) # 11 THEN "" ELSE text

\* EOSCue(uid=..., parent_cue_list=..., label=..., timecode=...)
EOSCue(uid, parent, label, timecode) ==
    [uid |-> uid, parent_cue_list |-> parent, label |-> label,
     timecode |-> PostInitTimecode(timecode)]

\* What console B reports in a pass: whether its count replies carry a second
\* argument, and the timecode text of its cues.
RemotesB == [extraArg : BOOLEAN, timecodeText : {"00:00:05:00", "5:00"}]

\* The payload of a count reply.
CountPayload(r, n) == IF r.extraArg THEN <<n, <<"X", 0, 0>>>> ELSE <<n>>

\* The payload of the reply for cue j of the list at index i.
CuePayload(r, i, j) == <<j, <<"C", i, j>>, "Go", r.timecodeText>>

\* response[1] exists.
HasSecond(payload) == Len(payload) >= 2

InitB ==
    /\ bpc = "idle"
    /\ eos_cues = EmptyDict
    /\ listObjs = <<>>
    /\ eosObjs = <<>>
    /\ response = <<>>
    /\ cue_list_count = 0
    /\ cue_list = 0
    /\ cue_list_obj = NoCue
    /\ cue_count_in_cue_list = 0
    /\ cue = 0
    /\ bremote = [extraArg |-> FALSE, timecodeText |-> "5:00"]
    /\ bpasses = 0
    /\ cueReplies = <<>>
    /\ bqueries = 0
    /\ bmissing = ""

(***************************************************************************)
(* populate_eos_cue_dict, one action per stretch between awaits.           *)
(***************************************************************************)
\* The pass starts: the registry is cleared (its objects are garbage) and
\* the cue-list count is queried.
StartPassB ==
    /\ bpc \in {"idle", "done", "failed"}
    /\ bpasses < MaxPasses
    /\ bpasses' = bpasses + 1
    /\ bpc' = "count"
    /\ eos_cues' = EmptyDict
    /\ listObjs' = <<>>
    /\ eosObjs' = <<>>
    /\ response' = <<>>
    /\ cue_list_count' = 0
    /\ cue_list' = 0
    /\ cue_list_obj' = NoCue
    /\ cue_count_in_cue_list' = 0
    /\ cue' = 0
    /\ bremote' \in RemotesB
    /\ cueReplies' = <<>>
    /\ bqueries' = 1
    /\ bmissing' = ""
    /\ qlab_cues' = OtherRegistry(qlab_cues)
    /\ UNCHANGED <<qvars, apass, cvars, tvars, rvars>>

\* A pass that goes on to the next query when a count is missing.
OnNoneGoesOn(at) == IF at = "count" THEN "list" ELSE "failed"

\* address, response = None: the unpacking raises TypeError, which ends the
\* pass whichever query `at` it was.
OnNone(at) == "failed"

\* A query of the pass yields None: unpacking it raises and ends the pass.
QueryNoneB ==
    /\ bpc \in {"count", "list", "cue_count", "cue"}
    /\ bpc' = OnNone(bpc)
    /\ bmissing' = bpc
    /\ UNCHANGED <<eos_cues, listObjs, eosObjs, response, cue_list_count,
                   cue_list, cue_list_obj, cue_count_in_cue_list, cue, bremote,
                   bpasses, cueReplies, bqueries>>
    /\ UNCHANGED <<nonB, rvars>>

\* The count reply: the outer loop starts with the query of index 0, or the
\* pass returns when there is no cue-list.
CountReply(n) ==
    /\ bpc = "count"
    /\ response' = CountPayload(bremote, n)
    /\ cue_list_count' = n
    /\ cue_list' = 0
    /\ bpc' = IF n > 0 THEN "list" ELSE "done"
    /\ bqueries' = IF n > 0 THEN bqueries + 1 ELSE bqueries
    /\ UNCHANGED <<eos_cues, listObjs, eosObjs, cue_list_obj,
                   cue_count_in_cue_list, cue, bremote, bpasses, cueReplies,
                   bmissing>>
    /\ UNCHANGED <<nonB, rvars>>

\* The owner given to a cue built without one.
CueOwnerNone(list) == NoCue

\* parent_cue_list=cue_list_obj in the constructor call of a cue.
CueOwner(list) == list

\* The reply for a cue-list index, with the list number in its echoed
\* address: the uid is read from `response` (which the reply was not
\* assigned to), the cue-list is built and registered and its cue count is
\* queried.  Without a response[1] the read raises and ends the pass.
ListReply(number) ==
    /\ bpc = "list"
    /\ IF HasSecond(response)
       THEN LET cue_list_uid == response[2]
                obj == Len(listObjs) + 1
            IN /\ listObjs' = Append(listObjs, EOSCueList(cue_list_uid, number))
               /\ eos_cues' = DictSet(eos_cues, cue_list_uid, ListRef(obj))
               /\ cue_list_obj' = obj
               /\ bpc' = "cue_count"
       ELSE /\ bpc' = "failed"
            /\ UNCHANGED <<listObjs, eos_cues, cue_list_obj>>
    /\ bqueries' = IF bpc' = "cue_count" THEN bqueries + 1 ELSE bqueries
    /\ UNCHANGED <<eosObjs, response, cue_list_count, cue_list,
                   cue_count_in_cue_list, cue, bremote, bpasses, cueReplies,
                   bmissing>>
    /\ UNCHANGED <<nonB, rvars>>

\* The echoed address of a cue-list or cue reply holds no number where the
\* code reads one: int() raises and ends the pass.
AddressMalformed ==
    /\ bpc \in {"list", "cue"}
    /\ bpc' = "failed"
    /\ UNCHANGED <<eos_cues, listObjs, eosObjs, response, cue_list_count,
                   cue_list, cue_list_obj, cue_count_in_cue_list, cue, bremote,
                   bpasses, cueReplies, bqueries, bmissing>>
    /\ UNCHANGED <<nonB, rvars>>

\* The end of an iteration of the outer loop: the next index is queried, or
\* the pass returns.
NextList(i) == IF i + 1 < cue_list_count THEN "list" ELSE "done"

\* The cue-count reply of the current cue-list.
CueCountReply(n) ==
    /\ bpc = "cue_count"
    /\ response' = CountPayload(bremote, n)
    /\ cue_count_in_cue_list' = n
    /\ cue' = 0
    /\ IF n > 0
       THEN bpc' = "cue" /\ UNCHANGED cue_list
       ELSE /\ bpc' = NextList(cue_list)
            /\ cue_list' = IF NextList(cue_list) = "list" THEN cue_list + 1 ELSE cue_list
    /\ bqueries' = IF bpc' = "done" THEN bqueries ELSE bqueries + 1
    /\ UNCHANGED <<eos_cues, listObjs, eosObjs, cue_list_count, cue_list_obj,
                   bremote, bpasses, cueReplies, bmissing>>
    /\ UNCHANGED <<nonB, rvars>>

\* A walk that skips no part.
IsContinuationNever(part_number) == FALSE

\* if part_number != 0: continue
IsContinuation(part_number) == part_number # 0

\* The reply for a cue index, with the part number in its echoed address: a
\* part other than 0 is skipped, else the cue is built and put into the
\* current cue-list.  Then the next cue is queried, or the next cue-list, or
\* the pass returns.
CueReply(part_number) ==
    /\ bpc = "cue"
    /\ response' = CuePayload(bremote, cue_list, cue)
    /\ cueReplies' = Append(cueReplies,
                             <<cue_list_obj, CuePayload(bremote, cue_list, cue)[2],
                               part_number>>)
    /\ IF IsContinuation(part_number)
       THEN UNCHANGED <<eosObjs, listObjs>>
       ELSE LET payload == CuePayload(bremote, cue_list, cue)
                cue_uid == payload[2]
                label == payload[3]
                timecode == NormaliseTimecode(payload[4])
                cue_object == Len(eosObjs) + 1
            IN /\ eosObjs' = Append(eosObjs,
                                    EOSCue(cue_uid, CueOwner(cue_list_obj), label, timecode))
               /\ listObjs' = [listObjs EXCEPT
                                 ![cue_list_obj].cue_list_dict = DictSet(@, cue_uid, cue_object)]
    /\ IF cue + 1 < cue_count_in_cue_list
       THEN cue' = cue + 1 /\ UNCHANGED <<bpc, cue_list>>
       ELSE /\ bpc' = NextList(cue_list)
            /\ cue_list' = IF NextList(cue_list) = "list" THEN cue_list + 1 ELSE cue_list
            /\ UNCHANGED cue
    /\ bqueries' = IF bpc' = "done" THEN bqueries ELSE bqueries + 1
    /\ UNCHANGED <<eos_cues, cue_list_count, cue_list_obj, cue_count_in_cue_list,
                   bremote, bpasses, bmissing>>
    /\ UNCHANGED <<nonB, rvars>>

NextB ==
    \/ StartPassB
    \/ QueryNoneB
    \/ \E n \in 0..MaxLists : CountReply(n)
    \/ \E number \in 1..MaxLists : ListReply(number)
    \/ AddressMalformed
    \/ \E n \in 0..MaxListCues : CueCountReply(n)
    \/ \E part_number \in {0, 1} : CueReply(part_number)

(***************************************************************************)
(* The registry operations of CueManager: add_qlab_cue, remove_qlab_cue,   *)
(* add_eos_cue and remove_eos_cue.  None of them awaits anything: each is  *)
(* one action.  lastOp records the call and how it ended.                  *)
(***************************************************************************)
\* del d[k]
DictDel(d, k) == SelectSeq(d, LAMBDA item : item[1] # k)

\* The operation that has been called last: the console, "add" or "remove",
\* the uid of the cue, the parent uid given (add), the exception raised or
\* "ok", and the cue object added or popped.
NoOp == [console |-> "", kind |-> "", uid |-> 0, parent |-> 0,
         outcome |-> "", obj |-> 0]

InitR ==
    /\ aops = 0
    /\ bops = 0
    /\ lastOp = NoOp

\* ---- console A ----
\* The uid None (no parent uid given) of console A.
NoId == 0

\* The uids the operations of console A are called with: uids of cues a
\* pass builds and a uid no pass builds.
OpUids == {1, 2, MaxEntries + 1}

\* A failed add that goes on to register the cue.
AfterRaiseRegisters(reg, uid, obj) == DictSet(reg, uid, obj)

\* The registry after `raise ValueError(...)` in an add: the statement that
\* registers the cue is not reached.
AfterRaise(reg, uid, obj) == reg

\* new_cue.parent_cue = parent_cue
BackRef(parent_cue) == parent_cue

\* add_qlab_cue(new_cue, parent_cue_id), new_cue a cue the caller has built
\* with the uid `uid` and no parent.
add_qlab_cue(uid, parent_cue_id) ==
    /\ apc \in {"idle", "root_query", "done", "root_failed", "attr_failed"}
    /\ aops < MaxOps
    /\ aops' = aops + 1
    /\ LET new_cue == Len(cueObjs) + 1
           built == Append(cueObjs, QLabCue(uid, NoCue))
       IN IF parent_cue_id # NoId
          THEN IF DictHas(qlab_cues, parent_cue_id)
               THEN LET parent_cue == DictGet(qlab_cues, parent_cue_id)
                        linked == [built EXCEPT
                                     ![parent_cue].cue_dict = DictSet(@, uid, new_cue)]
                    IN /\ cueObjs' = [linked EXCEPT
                                        ![new_cue].parent_cue = BackRef(parent_cue)]
                       /\ qlab_cues' = DictSet(qlab_cues, uid, new_cue)
                       /\ lastOp' = [console |-> "A", kind |-> "add", uid |-> uid,
                                     parent |-> parent_cue_id, outcome |-> "ok",
                                     obj |-> new_cue]
               ELSE /\ qlab_cues' = AfterRaise(qlab_cues, uid, new_cue)
                    /\ cueObjs' = IF qlab_cues' = qlab_cues THEN cueObjs ELSE built
                    /\ lastOp' = [console |-> "A", kind |-> "add", uid |-> uid,
                                  parent |-> parent_cue_id, outcome |-> "ValueError",
                                  obj |-> NoCue]
          ELSE /\ cueObjs' = built
               /\ qlab_cues' = DictSet(qlab_cues, uid, new_cue)
               /\ lastOp' = [console |-> "A", kind |-> "add", uid |-> uid,
                             parent |-> parent_cue_id, outcome |-> "ok",
                             obj |-> new_cue]
    /\ UNCHANGED <<apc, aidx, astep, aremote, apasses, areply, afailed,
                   aqueries, bops>>
    /\ UNCHANGED nonA

\* remove_qlab_cue(cue_id)
remove_qlab_cue(cue_id) ==
    /\ apc \in {"idle", "root_query", "done", "root_failed", "attr_failed"}
    /\ aops < MaxOps
    /\ aops' = aops + 1
    /\ IF DictHas(qlab_cues, cue_id)
       THEN LET popped == DictGet(qlab_cues, cue_id)
                parent_cue == cueObjs[popped].parent_cue
            IN /\ qlab_cues' = DictDel(qlab_cues, cue_id)
               /\ IF parent_cue # NoCue
                  THEN IF DictHas(cueObjs[parent_cue].cue_dict, cue_id)
                       THEN /\ cueObjs' = [cueObjs EXCEPT
                                             ![parent_cue].cue_dict = DictDel(@, cue_id),
                                             ![popped].parent_cue = NoCue]
                            /\ lastOp' = [console |-> "A", kind |-> "remove",
                                          uid |-> cue_id, parent |-> NoId,
                                          outcome |-> "ok", obj |-> popped]
                       ELSE /\ cueObjs' = cueObjs
                            /\ lastOp' = [console |-> "A", kind |-> "remove",
                                          uid |-> cue_id, parent |-> NoId,
                                          outcome |-> "KeyError", obj |-> popped]
                  ELSE /\ cueObjs' = cueObjs
                       /\ lastOp' = [console |-> "A", kind |-> "remove",
                                     uid |-> cue_id, parent |-> NoId,
                                     outcome |-> "ok", obj |-> popped]
       ELSE /\ UNCHANGED <<qlab_cues, cueObjs>>
            /\ lastOp' = [console |-> "A", kind |-> "remove", uid |-> cue_id,
                          parent |-> NoId, outcome |-> "ValueError", obj |-> NoCue]
    /\ UNCHANGED <<apc, aidx, astep, aremote, apasses, areply, afailed,
                   aqueries, bops>>
    /\ UNCHANGED nonA

\* ---- console B ----
\* The uid None (no parent uid given) of console B, and what a registry
\* entry of console B refers to: a cue-list or a cue.
NoUid == <<"None", 0, 0>>
IsListRef(ref) == ref[1] = "list"
CueRef(j) == <<"cue", j>>

\* The uids the operations of console B are called with: the uid of a
\* cue-list, uids of cues of a pass and a uid no pass builds.
OpUidsB == {<<"X", 0, 0>>, <<"C", 0, 0>>, <<"N", 0, 0>>}

\* hasattr(obj, 'cue_dict') for an object of the console-B registry:
\* EOSCueList declares uid, number and cue_list_dict, EOSCue (a Cue) uid,
\* number, timecode, label and parent_cue_list.
HasCueDict(ref) == FALSE

\* hasattr(obj, 'parent_cue_list')
HasParentCueList(ref) == ~IsListRef(ref)

\* add_eos_cue(new_cue, parent_cue_id): new_cue is a cue the caller has
\* built with the uid `uid` and no parent (existing = NoCue), or the cue
\* object `existing` of a pass.
add_eos_cue(uid, existing, parent_cue_id) ==
    /\ bpc \in {"idle", "count", "done", "failed"}
    /\ bops < MaxOps
    /\ bops' = bops + 1
    /\ existing # NoCue => existing \in DOMAIN eosObjs /\ eosObjs[existing].uid = uid
    /\ LET new_cue == IF existing # NoCue THEN existing ELSE Len(eosObjs) + 1
           built == IF existing # NoCue THEN eosObjs
                    ELSE Append(eosObjs, EOSCue(uid, NoCue, "", ""))
       IN IF parent_cue_id # NoUid
          THEN IF DictHas(eos_cues, parent_cue_id)
               THEN LET parent_cue_list == DictGet(eos_cues, parent_cue_id)
                    IN IF HasCueDict(parent_cue_list)
                       THEN \* parent_cue_list.cue_dict[new_cue.uid] = new_cue
                            /\ listObjs' = [listObjs EXCEPT
                                  ![parent_cue_list[2]].cue_list_dict =
                                      DictSet(@, uid, new_cue)]
                            /\ eosObjs' = [built EXCEPT
                                  ![new_cue].parent_cue_list = parent_cue_list[2]]
                            /\ eos_cues' = DictSet(eos_cues, uid, CueRef(new_cue))
                            /\ lastOp' = [console |-> "B", kind |-> "add",
                                          uid |-> uid, parent |-> parent_cue_id,
                                          outcome |-> "ok", obj |-> new_cue]
                       ELSE /\ UNCHANGED <<eos_cues, listObjs, eosObjs>>
                            /\ lastOp' = [console |-> "B", kind |-> "add",
                                          uid |-> uid, parent |-> parent_cue_id,
                                          outcome |-> "AttributeError",
                                          obj |-> NoCue]
               ELSE /\ eos_cues' = AfterRaise(eos_cues, uid, CueRef(new_cue))
                    /\ eosObjs' = IF eos_cues' = eos_cues THEN eosObjs ELSE built
                    /\ UNCHANGED listObjs
                    /\ lastOp' = [console |-> "B", kind |-> "add", uid |-> uid,
                                  parent |-> parent_cue_id, outcome |-> "ValueError",
                                  obj |-> NoCue]
          ELSE /\ eosObjs' = built
               /\ eos_cues' = DictSet(eos_cues, uid, CueRef(new_cue))
               /\ UNCHANGED listObjs
               /\ lastOp' = [console |-> "B", kind |-> "add", uid |-> uid,
                             parent |-> parent_cue_id, outcome |-> "ok",
                             obj |-> new_cue]
    /\ UNCHANGED <<bpc, response, cue_list_count, cue_list, cue_list_obj,
                   cue_count_in_cue_list, cue, bremote, bpasses, cueReplies,
                   bqueries, bmissing, aops>>
    /\ UNCHANGED nonB

\* remove_eos_cue(cue_id): the entry is popped before the attributes of the
\* popped object are read.
remove_eos_cue(cue_id) ==
    /\ bpc \in {"idle", "count", "done", "failed"}
    /\ bops < MaxOps
    /\ bops' = bops + 1
    /\ IF DictHas(eos_cues, cue_id)
       THEN LET popped == DictGet(eos_cues, cue_id)
            IN /\ eos_cues' = DictDel(eos_cues, cue_id)
               /\ UNCHANGED <<listObjs, eosObjs>>
               /\ IF ~HasParentCueList(popped)
                  THEN lastOp' = [console |-> "B", kind |-> "remove",
                                  uid |-> cue_id, parent |-> NoUid,
                                  outcome |-> "AttributeError", obj |-> popped[2]]
                  ELSE IF eosObjs[popped[2]].parent_cue_list # NoCue
                            /\ ~HasCueDict(ListRef(eosObjs[popped[2]].parent_cue_list))
                  THEN lastOp' = [console |-> "B", kind |-> "remove",
                                  uid |-> cue_id, parent |-> NoUid,
                                  outcome |-> "AttributeError", obj |-> popped[2]]
                  ELSE lastOp' = [console |-> "B", kind |-> "remove",
                                  uid |-> cue_id, parent |-> NoUid,
                                  outcome |-> "ok", obj |-> popped[2]]
       ELSE /\ UNCHANGED <<eos_cues, listObjs, eosObjs>>
            /\ lastOp' = [console |-> "B", kind |-> "remove", uid |-> cue_id,
                          parent |-> NoUid, outcome |-> "ValueError", obj |-> NoCue]
    /\ UNCHANGED <<bpc, response, cue_list_count, cue_list, cue_list_obj,
                   cue_count_in_cue_list, cue, bremote, bpasses, cueReplies,
                   bqueries, bmissing, aops>>
    /\ UNCHANGED nonB

\* The root-list replies of the runs that call the registry operations.
OpRootLists == UNION {{RootList(p, n) : p \in ParentArrays(n)} : n \in 0..MaxOpEntries}

\* No pass and no operation of console A (of console B) has run.  The two
\* consoles have separate registries and transports: a run with registry
\* operations works on one of them.
QuietA == apasses = 0 /\ aops = 0
QuietB == bpasses = 0 /\ bops = 0

\* The runs with registry operations: one pass whose queries are answered,
\* over small replies, and the operations called before, during (at the
\* first query) and after it.
NextR ==
    \/ QuietB /\ apasses = 0 /\ StartPassA /\ aremote' = aremote
    \/ QuietB /\ RootNone
    \/ QuietB /\ RootRejected
    \/ QuietB /\ \E data \in OpRootLists : RootOk(data)
    \/ QuietB /\ AttrOk
    \/ QuietB /\ \E uid \in OpUids : \E parent_cue_id \in OpUids \cup {NoId} :
                     add_qlab_cue(uid, parent_cue_id)
    \/ QuietB /\ \E cue_id \in OpUids : remove_qlab_cue(cue_id)
    \/ QuietA /\ bpasses = 0 /\ StartPassB /\ bremote'.extraArg
                 /\ bremote'.timecodeText = "5:00"
    \/ QuietA /\ \E n \in 0..MaxOpLists : CountReply(n)
    \/ QuietA /\ \E number \in 1..MaxOpLists : ListReply(number)
    \/ QuietA /\ \E n \in 0..MaxOpLists : CueCountReply(n)
    \/ QuietA /\ \E part_number \in {0, 1} : CueReply(part_number)
    \/ QuietA /\ \E uid \in OpUidsB : \E existing \in {NoCue} \cup DOMAIN eosObjs :
                     \E parent_cue_id \in OpUidsB \cup {NoUid} :
                         add_eos_cue(uid, existing, parent_cue_id)
    \/ QuietA /\ \E cue_id \in OpUidsB : remove_eos_cue(cue_id)

(***************************************************************************)
(* The connection manager: OSCHandler.run, start_client and                *)
(* connect_to_qlab.  run awaits start_client for console A (qlab), then    *)
(* for console B (eos), then connect_to_qlab.  The transport and the       *)
(* address prompt of the user interface are the environment.               *)
(***************************************************************************)
Clients == {"qlab", "eos"}

\* An address is <<host, port>>; "None" stands for None in either place.
Hosts == {"10.0.0.2"}
Ports == {"53001"}
Address(host, port) == <<host, port>>

\* QLAB_ADDRESS and EOS_ADDRESS of the settings.
ConfiguredAddress(c) ==
    IF c = "qlab" THEN Address("127.0.0.1", "53000")
    ELSE Address("127.0.0.1", "54000")

\* What `await new_address_future` may yield: a pair of optional values.
PromptResults == (Hosts \cup {"None"}) \X (Ports \cup {"None"})

InitC ==
    /\ rpc = "idle"
    /\ spc = [c \in Clients |-> "idle"]
    /\ transport_address = [c \in Clients |-> ConfiguredAddress(c)]
    /\ server_address = [c \in Clients |-> ConfiguredAddress(c)]
    /\ attempts = [c \in Clients |-> 0]
    /\ alive = [c \in Clients |-> 0]
    /\ prompts = [c \in Clients |-> 0]
    /\ resolved = [c \in Clients |-> <<>>]
    /\ qlab_connected = "False"
    /\ hpc = "idle"
    /\ herror = ""
    /\ hqueries = <<>>
    /\ hreply = ""

\* A retry on every resolution of the prompt.
ShouldRetryAlways(new_address) == TRUE

\* if new_address[0] is not None or new_address[1] is not None
ShouldRetry(new_address) == new_address[1] # "None" \/ new_address[2] # "None"

\* utils.parse_json(json_string): json.loads raises TypeError for an
\* argument that is not text, JSONDecodeError (answered with None) for text
\* that is not JSON; else the parsed object, here its 'status'.
parse_json(arg) ==
    IF arg.tuple THEN "TypeError"
    ELSE IF arg.text = "garbage" THEN "None"
    ELSE arg.text

\* What query_and_wait returns for a reply: response_args, the tuple of the
\* arguments the dispatcher called response_handler with.
ResponseArgs(text) == [tuple |-> TRUE, text |-> text]

\* The texts of the replies of console A: JSON with the status ok, error or
\* another status, and text that is not JSON.
ReplyTexts == {"ok", "error", "denied", "garbage"}

\* OSCHandler.__init__ schedules run; run calls start_client for qlab, which
\* creates the task of client.run() and sleeps for the settle interval.
RunStart ==
    /\ rpc = "idle"
    /\ rpc' = "start_qlab"
    /\ spc' = [spc EXCEPT !["qlab"] = "settling"]
    /\ attempts' = [attempts EXCEPT !["qlab"] = 1]
    /\ alive' = [alive EXCEPT !["qlab"] = 1]
    /\ UNCHANGED <<transport_address, server_address, prompts, resolved,
                   qlab_connected, hpc, herror, hqueries, hreply>>
    /\ UNCHANGED nonC

\* What run does when start_client of c has returned `outcome` (a task or
\* None): after qlab it calls start_client for eos; after eos it calls
\* connect_to_qlab, which sends the workspace-discovery query.
RunContinues(c, outcome) ==
    IF c = "qlab"
    THEN /\ rpc' = "start_eos"
         /\ spc' = [spc EXCEPT ![c] = outcome, !["eos"] = "settling"]
         /\ attempts' = [attempts EXCEPT !["eos"] = 1]
         /\ alive' = [alive EXCEPT !["eos"] = 1]
         /\ UNCHANGED <<hpc, hqueries>>
    ELSE /\ rpc' = "handshake"
         /\ spc' = [spc EXCEPT ![c] = outcome]
         /\ hpc' = "discovery"
         /\ hqueries' = Append(hqueries, "/workspaces")
         /\ UNCHANGED <<attempts, alive>>

\* The settle interval is over and client.is_connected(): start_client
\* returns the task.
AttemptConnected(c) ==
    /\ spc[c] = "settling"
    /\ RunContinues(c, "task")
    /\ UNCHANGED <<transport_address, server_address, prompts, resolved,
                   qlab_connected, herror, hreply>>
    /\ UNCHANGED nonC

\* The settle interval is over and the client is not connected, or the
\* attempt raised OSError: the error is printed and the prompt is shown.
AttemptFailed(c) ==
    /\ spc[c] = "settling"
    /\ spc' = [spc EXCEPT ![c] = "prompting"]
    /\ prompts' = [prompts EXCEPT ![c] = @ + 1]
    /\ UNCHANGED <<rpc, transport_address, server_address, attempts, alive, resolved,
                   qlab_connected, hpc, herror, hqueries, hreply>>
    /\ UNCHANGED nonC

\* The prompt resolves to an address the code retries with: the address is
\* applied to the transport and start_client calls itself, which creates
\* another task of client.run(); the task of the attempt before is neither
\* cancelled nor awaited.
PromptRetry(c, new_address) ==
    /\ spc[c] = "prompting"
    /\ ShouldRetry(new_address)
    /\ attempts[c] < MaxAttempts
    /\ resolved' = [resolved EXCEPT ![c] = Append(@, new_address)]
    /\ server_address' = [server_address EXCEPT ![c] = new_address]
    /\ transport_address' = [transport_address EXCEPT ![c] = new_address]
    /\ spc' = [spc EXCEPT ![c] = "settling"]
    /\ attempts' = [attempts EXCEPT ![c] = @ + 1]
    /\ alive' = [alive EXCEPT ![c] = @ + 1]
    /\ UNCHANGED <<rpc, prompts, qlab_connected, hpc, herror, hqueries, hreply>>
    /\ UNCHANGED nonC

\* The prompt resolves to an address the code does not retry with:
\* start_client (every frame of it) returns None.
PromptAbandon(c, new_address) ==
    /\ spc[c] = "prompting"
    /\ ~ShouldRetry(new_address)
    /\ resolved' = [resolved EXCEPT ![c] = Append(@, new_address)]
    /\ RunContinues(c, "none")
    /\ UNCHANGED <<transport_address, server_address, prompts,
                   qlab_connected, herror, hreply>>
    /\ UNCHANGED nonC

\* A task of client.run() ends by itself while start_client of c is in
\* progress: the connection was refused or the socket closed.  Nothing in
\* start_client waits for it or observes it.
ClientRunEnds(c) ==
    /\ spc[c] \in {"settling", "prompting"}
    /\ alive[c] > 0
    /\ alive' = [alive EXCEPT ![c] = @ - 1]
    /\ UNCHANGED <<rpc, spc, transport_address, server_address, attempts, prompts,
                   resolved, qlab_connected, hpc, herror, hqueries, hreply>>
    /\ UNCHANGED nonC

\* run is cancelled at one of its awaits: CancelledError passes through
\* start_client and connect_to_qlab, and run returns.
RunCancelled ==
    /\ rpc \in {"start_qlab", "start_eos", "handshake"}
    /\ rpc' = "cancelled"
    /\ spc' = [c \in Clients |->
                 IF spc[c] \in {"settling", "prompting"} THEN "raised" ELSE spc[c]]
    /\ hpc' = IF hpc \in {"discovery", "connect"} THEN "raised" ELSE hpc
    /\ herror' = IF hpc \in {"discovery", "connect"} THEN "CancelledError" ELSE herror
    /\ UNCHANGED <<transport_address, server_address, attempts, alive, prompts,
                   resolved, qlab_connected, hqueries, hreply>>
    /\ UNCHANGED nonC

\* How run ends when connect_to_qlab raised `error`: it re-raises.
HandshakeRaised(error) ==
    /\ hpc' = "raised"
    /\ herror' = error
    /\ rpc' = "raised"
    /\ UNCHANGED <<qlab_connected, hqueries>>

\* How run ends when connect_to_qlab returned `value`: it stores it in
\* qlab_connected and raises ConnectionError for None.
HandshakeReturned(value) ==
    /\ hpc' = "returned"
    /\ qlab_connected' = value
    /\ rpc' = IF value = "None" THEN "raised" ELSE "done"
    /\ UNCHANGED <<herror, hqueries>>

\* query_and_wait of the discovery query returns the reply: connect_to_qlab
\* hands what it returned to parse_json.
DiscoveryReply(text) ==
    /\ rpc = "handshake" /\ hpc = "discovery"
    /\ hreply' = text
    /\ LET parsed == parse_json(ResponseArgs(text))
       IN IF parsed = "TypeError" THEN HandshakeRaised("TypeError")
          ELSE IF parsed = "None" \/ parsed = "error"
          THEN HandshakeRaised("ConnectionError")
          ELSE IF parsed = "ok"
          THEN /\ hpc' = "connect"
               /\ hqueries' = Append(hqueries, "/workspace/connect")
               /\ UNCHANGED <<rpc, qlab_connected, herror>>
          ELSE HandshakeReturned("None")
    /\ UNCHANGED <<spc, transport_address, server_address, attempts, alive, prompts,
                   resolved>>
    /\ UNCHANGED nonC

\* query_and_wait of a handshake query raises: the busy wait timed out or
\* the send failed.
HandshakeQueryFails(error) ==
    /\ rpc = "handshake" /\ hpc \in {"discovery", "connect"}
    /\ HandshakeRaised(error)
    /\ UNCHANGED <<spc, transport_address, server_address, attempts, alive, prompts,
                   resolved, hreply>>
    /\ UNCHANGED nonC

NextC ==
    \/ RunStart
    \/ \E c \in Clients : AttemptConnected(c)
    \/ \E c \in Clients : AttemptFailed(c)
    \/ \E c \in Clients : ClientRunEnds(c)
    \/ \E c \in Clients : \E new_address \in PromptResults : PromptRetry(c, new_address)
    \/ \E c \in Clients : \E new_address \in PromptResults : PromptAbandon(c, new_address)
    \/ RunCancelled
    \/ \E text \in ReplyTexts : DiscoveryReply(text)
    \/ \E error \in {"TimeoutError", "OSError"} : HandshakeQueryFails(error)

(***************************************************************************)
(* utils.py: timecode_to_float and float_to_timecode.  A timecode text is  *)
(* the sequence of its four fields, each the sequence of its decimal       *)
(* digits (the ':' are where split and the format string put them).  A     *)
(* Python float is a binary64: here a non-negative one is its integer part *)
(* and the bits of its fraction, most significant first, and every         *)
(* operation that rounds in the code rounds here, to nearest, ties to      *)
(* even.                                                                   *)
(***************************************************************************)
\* The significand of a binary64 has 53 bits.
MantissaBits == 53

\* int(field) for a field of decimal digits
RECURSIVE ParseInt(_)
ParseInt(digits) ==
    IF digits = <<>> THEN 0
    ELSE 10 * ParseInt(SubSeq(digits, 1, Len(digits) - 1)) + digits[Len(digits)]

\* The decimal digits of n.
RECURSIVE Digits(_)
Digits(n) == IF n < 10 THEN <<n>> ELSE Digits(n \div 10) \o <<n % 10>>

\* f"{n:02}": at least two digits, zero-padded.
Format02(n) == IF n < 10 THEN <<0, n>> ELSE Digits(n)

\* The number of bits of the integer n.
RECURSIVE BitLen(_)
BitLen(n) == IF n = 0 THEN 0 ELSE 1 + BitLen(n \div 2)

\* The positions of the one bits of a fraction.
Ones(bits) == {i \in DOMAIN bits : bits[i] = 1}

\* The number of zero bits a fraction starts with.
LeadingZeros(bits) ==
    IF Ones(bits) = {} THEN Len(bits)
    ELSE (CHOOSE i \in Ones(bits) : \A j \in Ones(bits) : i <= j) - 1

\* 2^n modulo d
RECURSIVE PowerOfTwoMod(_, _)
PowerOfTwoMod(n, d) ==
    IF n = 0 THEN 1 % d
    ELSE LET h == PowerOfTwoMod(n \div 2, d)
         IN  (h * h * (IF n % 2 = 1 THEN 2 ELSE 1)) % d

\* What is left of r / d after n bits of its expansion.
RemAfter(r, d, n) == (r * PowerOfTwoMod(n, d)) % d

\* The first n bits of the binary expansion of r / d, for r < d.
Expansion(r, d, n) == [i \in 1..n |-> (2 * RemAfter(r, d, i - 1)) \div d]

\* The number of zero bits the expansion of r / d starts with, for 0 < r < d.
RECURSIVE QuotientZeros(_, _)
QuotientZeros(r, d) == IF 2 * r >= d THEN 0 ELSE 1 + QuotientZeros(2 * r, d)

\* One unit added in the last place of a fraction: <<carry out, fraction>>.
Increment(bits) ==
    LET zeros == DOMAIN bits \ Ones(bits)
    IN  IF zeros = {} THEN <<1, [i \in DOMAIN bits |-> 0]>>
        ELSE LET last == CHOOSE i \in zeros : \A j \in zeros : j <= i
             IN  <<0, [i \in DOMAIN bits |->
                          IF i < last THEN bits[i] ELSE IF i = last THEN 1 ELSE 0]>>

\* A fraction without the zero bits it ends with.
Trim(bits) ==
    IF Ones(bits) = {} THEN <<>>
    ELSE SubSeq(bits, 1, CHOOSE i \in Ones(bits) : \A j \in Ones(bits) : j <= i)

\* A float: the integer part and the bits of the fraction.
Float(int, frac) == [int |-> int, frac |-> Trim(frac)]

\* The binary64 nearest to int + 0.bits (+ something below the last bit
\* when `sticky`), ties to even.
RoundNearestEven(int, bits, sticky) ==
    LET keep == IF int > 0 THEN MantissaBits - BitLen(int)
                ELSE LeadingZeros(bits) + MantissaBits
    IN  IF Len(bits) <= keep THEN Float(int, bits)
        ELSE LET kept == SubSeq(bits, 1, keep)
                 half == bits[keep + 1] = 1
                 more == sticky \/ \E i \in (keep + 2)..Len(bits) : bits[i] = 1
                 odd == IF keep = 0 THEN int % 2 = 1 ELSE kept[keep] = 1
                 up == Increment(kept)
             IN  IF half /\ (more \/ odd) THEN Float(int + up[1], up[2])
                 ELSE Float(int, kept)

\* a / b for ints 0 <= a < b: the quotient, correctly rounded.
TrueDivide(a, b) ==
    IF a = 0 THEN Float(0, <<>>)
    ELSE LET n == QuotientZeros(a, b) + MantissaBits + 1
         IN  RoundNearestEven(0, Expansion(a, b, n), RemAfter(a, b, n) # 0)

\* n + x for an int n >= 0 and a float 0 <= x < 1: the sum, rounded.
AddInt(n, x) == RoundNearestEven(n + x.int, x.frac, FALSE)

\* The exact product is computed on stretches of this many bits.
LimbBits == 15

\* The integer whose binary digits are `bits`.
RECURSIVE LimbValue(_)
LimbValue(bits) ==
    IF bits = <<>> THEN 0
    ELSE 2 * LimbValue(SubSeq(bits, 1, Len(bits) - 1)) + bits[Len(bits)]

\* The n binary digits of v.
LimbDigits(v, n) == [i \in 1..n |-> (v \div 2^(n - i)) % 2]

\* k times the fraction 0.bits, exactly: <<integer part, fraction>>.
RECURSIVE TimesInt(_, _)
TimesInt(bits, k) ==
    IF bits = <<>> THEN <<0, <<>>>>
    ELSE LET n == IF Len(bits) < LimbBits THEN Len(bits) ELSE LimbBits
             rest == TimesInt(SubSeq(bits, n + 1, Len(bits)), k)
             t == k * LimbValue(SubSeq(bits, 1, n)) + rest[1]
         IN  <<t \div 2^n, LimbDigits(t % 2^n, n) \o rest[2]>>

\* x * k for a float 0 <= x < 1 and an int k: the product, rounded.
Multiply(x, k) ==
    LET exact == TimesInt(x.frac, k)
    IN  RoundNearestEven(exact[1], exact[2], FALSE)

\* def timecode_to_float(timecode, fps)
timecode_to_float(timecode, fps) ==
    LET hh == ParseInt(timecode[1])
        mm == ParseInt(timecode[2])
        ss == ParseInt(timecode[3])
        ff == ParseInt(timecode[4])
    IN  AddInt(hh * 3600 + mm * 60 + ss, TrueDivide(ff, fps))

\* def float_to_timecode(seconds, fps)
float_to_timecode(seconds, fps) ==
    LET hh == seconds.int \div 3600
        seconds1 == Float(seconds.int % 3600, seconds.frac)
        mm == seconds1.int \div 60
        seconds2 == Float(seconds1.int % 60, seconds1.frac)
        ss == seconds2.int
        ff == Multiply(Float(seconds2.int - ss, seconds2.frac), fps).int
    IN  <<Format02(hh), Format02(mm), Format02(ss), Format02(ff)>>

\* The frame rates of the calls: TIMECODE_FPS and others in use, one of them
\* a power of two.
Rates == {24, 25, 30, 32}

\* The hours, minutes and seconds of the timecodes of the calls.
Hours == {0, 1, 99}
Minutes == {0, 59}
Seconds == {0, 1, 59}

\* The valid timecode texts at a frame rate: HH:MM:SS:FF, FF below fps.
Timecodes(fps) ==
    {<<Format02(hh), Format02(mm), Format02(ss), Format02(ff)>> :
        hh \in Hours, mm \in Minutes, ss \in Seconds, ff \in 0..(fps - 1)}

\* Nothing has been converted.
InitT ==
    /\ tpc = "idle"
    /\ tin = <<>>
    /\ tfps = 0
    /\ tseconds = Float(0, <<>>)
    /\ tout = <<>>

\* A call timecode_to_float(timecode, fps).
Decode(timecode, fps) ==
    /\ tpc = "idle"
    /\ tpc' = "decoded"
    /\ tin' = timecode
    /\ tfps' = fps
    /\ tseconds' = timecode_to_float(timecode, fps)
    /\ UNCHANGED tout
    /\ UNCHANGED <<qvars, avars, bvars, cvars, rvars>>

\* A call float_to_timecode(seconds, fps) on what the decoding returned.
Encode ==
    /\ tpc = "decoded"
    /\ tpc' = "encoded"
    /\ tout' = float_to_timecode(tseconds, tfps)
    /\ UNCHANGED <<tin, tfps, tseconds>>
    /\ UNCHANGED <<qvars, avars, bvars, cvars, rvars>>

NextT ==
    \/ \E fps \in Rates : \E timecode \in Timecodes(fps) : Decode(timecode, fps)
    \/ Encode

Init == InitQ /\ InitA /\ InitB /\ InitC /\ InitR /\ InitT

SpecQ == Init /\ [][NextQ]_vars

(***************************************************************************)
(* Properties of the correlator.                                           *)
(***************************************************************************)
\* The query message of call t is with the transport.
Sent(t) == pc[t] \in {"waiting", "returned", "cancelled_wait"}

\* C1: correlator exclusivity.  At most one call has a handler mapped to an
\* address at any time, and while a call is sending its query or awaiting the
\* reply no other call's handler is mapped to its response address: a later
\* query is not sent before the earlier query's handler is unmapped.
C1_Exclusive ==
    /\ \A a \in Addrs : Cardinality(handlers[a]) <= 1
    /\ \A t \in Calls : pc[t] \in {"sending", "waiting"} => handlers[addr[t]] = {t}

\* Two concurrent calls on one address: the first has sent and holds the
\* address, the second has slept in the busy wait and has not sent.
C1_Witness ==
    \E t, u \in Calls :
        /\ t # u /\ addr[t] = addr[u]
        /\ pc[t] = "waiting" /\ handlers[addr[t]] = {t}
        /\ pc[u] = "sleeping" /\ napped[u]

\* C2: correlator cleanup.  Once a call has returned or raised, on any exit
\* path, its handler is not mapped to its response address.
C2_CleanupOnEveryExit ==
    \A t \in Calls : pc[t] \in Finished => t \notin handlers[addr[t]]

\* C3: query timeout.  No call awaits its reply for longer than the timeout:
\* it fails with a timeout error when the timeout has elapsed.
C3_QueryTimeout ==
    \A t \in Calls : pc[t] = "waiting" => waited[t] <= TimeoutTicks

\* C4: busy timeout.  A call that wakes in the busy wait later than the
\* ceiling after its start fails with the busy timeout (unless it was
\* cancelled); the failing call has mapped no handler and sent nothing, and
\* the step leaves the dispatch table as it was.
C4_BusyTimeout ==
    [][\A t \in Calls :
        /\ ( /\ pc[t] = "sleeping" /\ elapsed[t] > TimeoutTicks
             /\ (pc'[t] # "sleeping" \/ (napped[t] /\ ~napped'[t])) )
           => pc'[t] \in {"busy_timeout", "cancelled_poll"}
        /\ (pc[t] # "busy_timeout" /\ pc'[t] = "busy_timeout")
           => /\ pc[t] = "sleeping" /\ elapsed[t] > TimeoutTicks
              /\ handlers' = handlers
              /\ HasHandler(handlers, addr[t]) => HasHandler(handlers', addr[t])
              /\ t \notin handlers'[addr[t]]
              /\ future'[t] = NoResult
      ]_vars

\* A call has failed with the busy timeout and the handler that blocked it
\* is still mapped.
C4_Witness ==
    \E t, u \in Calls :
        /\ t # u /\ pc[t] = "busy_timeout"
        /\ u \in handlers[addr[t]] /\ t \notin handlers[addr[t]]

\* C5: cancellation cleanup.  A call cancelled while it awaited
\* response_future has no handler mapped when the cancellation has
\* propagated, and the cancelling step leaves its response address free.
C5_CancelCleanup ==
    [][\A t \in Calls :
        (pc[t] = "waiting" /\ pc'[t] = "cancelled_wait")
           => ~HasHandler(handlers', addr[t])
      ]_vars

\* A call was cancelled while awaiting its reply and a later call on the same
\* address has mapped its handler and sent its query.
C5_Witness ==
    \E t, u \in Calls :
        /\ t < u /\ addr[t] = addr[u]
        /\ pc[t] = "cancelled_wait" /\ pc[u] = "waiting"

\* C6: query result.  A call that returned has returned the first message
\* dispatched to its handler, whatever was dispatched after it.
C6_FirstMessage ==
    \A t \in Calls :
        pc[t] = "returned" => result[t] # NoResult /\ result[t] = firstMsg[t]

\* A call returned the first message after a second, different message was
\* dispatched to its handler.
C6_Witness ==
    \E t \in Calls :
        /\ pc[t] = "returned" /\ result[t] = firstMsg[t]
        /\ lastMsg[t] # firstMsg[t]

\* C7: different addresses do not block each other.  A call that starts
\* while no handler is mapped to its response address maps its handler and
\* goes on to send at once, without sleeping, whatever is mapped to the other
\* addresses.
C7_NoCrossBlocking ==
    [][\A t \in Calls :
        (pc[t] = "idle" /\ pc'[t] # "idle" /\ ~HasHandler(handlers, addr'[t]))
           => pc'[t] = "sending" /\ handlers'[addr'[t]] = {t}
      ]_vars

\* Two calls on different addresses both await their replies.
C7_Witness ==
    \E t, u \in Calls :
        /\ addr[t] # addr[u]
        /\ pc[t] = "waiting" /\ pc[u] = "waiting"

\* C31: register before send.  In every call the handler of the call is
\* mapped to the response address when the query is handed to the transport
\* and stays mapped for as long as the call sends or awaits its reply; the
\* first message the dispatcher passes to handlers of that address while
\* the call sends or waits resolves the future of the call.
C31_RegisterBeforeSend ==
    [][\A t \in Calls :
        /\ pc'[t] \in {"sending", "waiting"} => t \in handlers'[addr'[t]]
        /\ (pc[t] \in {"sending", "waiting"} /\ firstMsg'[t] # firstMsg[t])
              => /\ firstMsg'[t][1] = addr[t]
                 /\ future'[t] = firstMsg'[t]
        /\ (pc[t] \in {"sending", "waiting"} /\ future[t] = NoResult)
              => \A u \in Calls :
                    (lastMsg'[u] # lastMsg[u] /\ lastMsg'[u][1] = addr[t])
                        => future'[t] = lastMsg'[u]
      ]_vars

\* The reply of a call arrived while the call was still handing its query to
\* the transport, and resolved its future.
C31_Witness ==
    \E t \in Calls :
        /\ pc[t] = "sending" /\ future[t] # NoResult
        /\ future[t][1] = addr[t]

(***************************************************************************)
(* Properties of the console-A pass.                                       *)
(***************************************************************************)
\* The edges <<parent uid, uid>> of a root-list reply; 0 is the parent of a
\* root.
RECURSIVE ReplyEdges(_, _)
ReplyEdges(data, parentUid) ==
    UNION {{<<parentUid, data[k].uniqueID>>}
             \cup ReplyEdges(data[k].cues, data[k].uniqueID) : k \in DOMAIN data}

ReplyUids(data) == {e[2] : e \in ReplyEdges(data, 0)}

\* The field of a cue that the answer to an attribute query is meant for,
\* and the default of that field.
AttrField(obj, step) ==
    CASE step = "/fileTarget" -> obj.file_target_path
      [] step = "/cueTargetID" -> obj.target_id
      [] step = "/duration" -> obj.duration
      [] step = "/preWait" -> obj.pre_wait_time
      [] step = "/postWait" -> obj.post_wait_time
      [] step = "/timecodeTrigger/text" -> obj.timecode
      [] OTHER -> "0.0"

AttrDefault(step) ==
    IF step \in {"/fileTarget", "/cueTargetID"} THEN "None" ELSE "0.0"

\* C8: partial-failure resilience.  When an attribute query of a cue has
\* failed, the cue is in the registry with the field of that attribute at
\* its default, and the pass goes on with the remaining attributes and cues
\* or has completed.
C8_PartialFailure ==
    Len(afailed) > 0 =>
        /\ DictHas(qlab_cues, afailed[1])
        /\ AttrField(cueObjs[DictGet(qlab_cues, afailed[1])], afailed[2])
              = AttrDefault(afailed[2])
        /\ apc \in {"backfill", "done"}

C27_IndependentWaits ==
    (apc = "done" /\ afailed = <<>>) =>
        \A i \in DOMAIN cueObjs :
            /\ cueObjs[i].duration = RemoteData(aremote, "/duration")
            /\ cueObjs[i].pre_wait_time = RemoteData(aremote, "/preWait")
            /\ cueObjs[i].post_wait_time = RemoteData(aremote, "/postWait")

SpecA == Init /\ [][NextA]_vars

PrimaryUids(L) ==
    {cueReplies[k][2] : k \in {n \in DOMAIN cueReplies :
                                  cueReplies[n][1] = L /\ cueReplies[n][3] = 0}}

SpecB == Init /\ [][NextB]_vars

(***************************************************************************)
(* Properties of the connection manager.                                   *)
(***************************************************************************)
\* The prompt for client c resolves in this step, to r.
Resolves(c, r) ==
    /\ Len(resolved'[c]) = Len(resolved[c]) + 1
    /\ resolved'[c][Len(resolved'[c])] = r

\* C12: connection abandonment.  When the prompt shown after a failed
\* attempt resolves to (None, None), start_client returns None at once: the
\* server address of the transport is as it was and no attempt is made and
\* no prompt shown, in that step and ever after.
C12_Abandonment ==
    [][\A c \in Clients :
        /\ (spc[c] = "prompting" /\ Resolves(c, Address("None", "None")))
           => /\ spc'[c] = "none"
              /\ transport_address'[c] = transport_address[c]
              /\ attempts'[c] = attempts[c]
              /\ prompts'[c] = prompts[c]
        /\ spc[c] = "none"
           => /\ spc'[c] = "none"
              /\ transport_address'[c] = transport_address[c]
              /\ attempts'[c] = attempts[c]
              /\ prompts'[c] = prompts[c]
      ]_vars

\* start_client for console A has returned None after a retry and a second
\* prompt that resolved to (None, None), and run has gone on.
C12_Witness ==
    /\ spc["qlab"] = "none" /\ attempts["qlab"] = 2 /\ prompts["qlab"] = 2
    /\ resolved["qlab"][2] = Address("None", "None")
    /\ transport_address["qlab"] = resolved["qlab"][1]
    /\ rpc = "handshake"

C14_HandshakeFailure ==
    /\ hreply \in {"error", "garbage"}
          => hpc = "raised" /\ herror = "ConnectionError"
    /\ (hpc = "raised" /\ hreply # "ok")
          => hqueries = <<"/workspaces">>

\* C23: handshake success reaches Ready.  When the workspace-discovery
\* reply has the status ok, connect_to_qlab does not fail on it: it goes on
\* to the connect query, and when it has returned (the connect reply had the
\* status ok) it has returned True, console A is marked connected and run
\* has not raised.
C23_HandshakeSuccess ==
    hreply = "ok"
        => /\ herror \notin {"TypeError", "ConnectionError"}
           /\ Len(hqueries) = 2
           /\ hpc = "returned" => qlab_connected = "True" /\ rpc = "done"

\* C24: handshaking only from Connected.  A handshake query is sent on the
\* transport of console A only when start_client has returned the task of a
\* connected client for it: after an abandoned attempt run sends none.
C24_HandshakeFromConnected ==
    hqueries # <<>> => spc["qlab"] = "task"

\* C33: single run task per transport.  At most one task of client.run() of
\* a client is alive at any time, and start_client creates a task of
\* client.run() for a client (on the first attempt and on every retry) only
\* when no earlier task of that client is still running.
C33_SingleRunTask ==
    [][\A c \in Clients :
          /\ alive'[c] <= 1
          /\ attempts'[c] # attempts[c] => alive[c] = 0
      ]_vars

SpecC == Init /\ [][NextC]_vars

(***************************************************************************)
(* Properties of the registry operations.                                  *)
(***************************************************************************)
\* C15: registry not-found errors.  On either console, an add with a parent
\* uid that is not in the registry and a remove with a uid that is not in
\* the registry raise ValueError and leave the registry and every children
\* or cues mapping as they were; and ValueError is raised in no other case.
C15_NotFound ==
    [][/\ aops' # aops =>
            LET absent == IF lastOp'.kind = "add"
                          THEN /\ lastOp'.parent # NoId
                               /\ ~DictHas(qlab_cues, lastOp'.parent)
                          ELSE ~DictHas(qlab_cues, lastOp'.uid)
            IN /\ absent => /\ lastOp'.outcome = "ValueError"
                            /\ qlab_cues' = qlab_cues
                            /\ cueObjs' = cueObjs
               /\ lastOp'.outcome = "ValueError" => absent
       /\ bops' # bops =>
            LET absent == IF lastOp'.kind = "add"
                          THEN /\ lastOp'.parent # NoUid
                               /\ ~DictHas(eos_cues, lastOp'.parent)
                          ELSE ~DictHas(eos_cues, lastOp'.uid)
            IN /\ absent => /\ lastOp'.outcome = "ValueError"
                            /\ eos_cues' = eos_cues
                            /\ listObjs' = listObjs
                            /\ eosObjs' = eosObjs
               /\ lastOp'.outcome = "ValueError" => absent
      ]_vars

\* After a pass of console A that registered two cues, an add under a parent
\* uid that is not registered was called, and then a remove of that uid.
C15_Witness ==
    /\ apc = "done" /\ Len(qlab_cues) = 2 /\ aops = 2
    /\ lastOp.console = "A" /\ lastOp.kind = "remove"
    /\ lastOp.uid = MaxEntries + 1 /\ lastOp.outcome = "ValueError"

\* C16: addChild success.  On either console, an add under a parent uid
\* that is in the registry succeeds, and afterwards the new cue is in the
\* registry under its uid, it is in the children or cues mapping of that
\* parent, and its back-reference is that parent.
C16_AddChild ==
    [][/\ ( /\ aops' # aops /\ lastOp'.kind = "add"
            /\ lastOp'.parent # NoId /\ DictHas(qlab_cues, lastOp'.parent) )
          => LET parent_cue == DictGet(qlab_cues, lastOp'.parent)
                 new_cue == lastOp'.obj
             IN /\ lastOp'.outcome = "ok"
                /\ DictHas(qlab_cues', lastOp'.uid)
                /\ DictGet(qlab_cues', lastOp'.uid) = new_cue
                /\ DictHas(cueObjs'[parent_cue].cue_dict, lastOp'.uid)
                /\ DictGet(cueObjs'[parent_cue].cue_dict, lastOp'.uid) = new_cue
                /\ cueObjs'[new_cue].parent_cue = parent_cue
       /\ ( /\ bops' # bops /\ lastOp'.kind = "add"
            /\ lastOp'.parent # NoUid /\ DictHas(eos_cues, lastOp'.parent) )
          => LET parent_cue_list == DictGet(eos_cues, lastOp'.parent)
                 new_cue == lastOp'.obj
             IN /\ lastOp'.outcome = "ok"
                /\ DictHas(eos_cues', lastOp'.uid)
                /\ DictGet(eos_cues', lastOp'.uid) = CueRef(new_cue)
                /\ IsListRef(parent_cue_list)
                /\ DictHas(listObjs'[parent_cue_list[2]].cue_list_dict, lastOp'.uid)
                /\ eosObjs'[new_cue].parent_cue_list = parent_cue_list[2]
      ]_vars

\* C17: remove without dangling membership.  On either console, a remove of
\* a uid that is in the registry succeeds, and afterwards the uid is neither
\* in the registry nor in the children or cues mapping of any cue or
\* cue-list.
C17_RemoveDetaches ==
    [][/\ ( /\ aops' # aops /\ lastOp'.kind = "remove"
            /\ DictHas(qlab_cues, lastOp'.uid) )
          => /\ lastOp'.outcome = "ok"
             /\ ~DictHas(qlab_cues', lastOp'.uid)
             /\ \A o \in DOMAIN cueObjs' :
                    ~DictHas(cueObjs'[o].cue_dict, lastOp'.uid)
       /\ ( /\ bops' # bops /\ lastOp'.kind = "remove"
            /\ DictHas(eos_cues, lastOp'.uid) )
          => /\ lastOp'.outcome = "ok"
             /\ ~DictHas(eos_cues', lastOp'.uid)
             /\ \A L \in DOMAIN listObjs' :
                    ~DictHas(listObjs'[L].cue_list_dict, lastOp'.uid)
      ]_vars

\* C18: parent-presence invariant.  Every cue in the console-A registry
\* whose parent_cue is not None has that parent in the registry.
C18_ParentPresent ==
    \A i \in DOMAIN qlab_cues :
        LET parent_cue == cueObjs[qlab_cues[i][2]].parent_cue
        IN parent_cue # NoCue => parent_cue \in DictValues(qlab_cues)

\* C32: registry/children coherence.  Every cue in the cue_dict of a cue of
\* the console-A registry is in the registry under its uid, and the
\* registry holds that very cue there.
C32_ChildrenCoherent ==
    \A i \in DOMAIN qlab_cues :
        LET owner == qlab_cues[i][2]
        IN \A j \in DOMAIN cueObjs[owner].cue_dict :
              LET child == cueObjs[owner].cue_dict[j]
              IN /\ DictHas(qlab_cues, child[1])
                 /\ DictGet(qlab_cues, child[1]) = child[2]

SpecR == Init /\ [][NextR]_vars

(***************************************************************************)
(* Properties of the passes of either console.                             *)
(***************************************************************************)
\* The runs of the sync passes: the registries and transports of the two
\* consoles are separate, a run works on one of them.
NextP ==
    \/ QuietB /\ StartPassA
    \/ QuietB /\ RootNone
    \/ QuietB /\ RootRejected
    \/ QuietB /\ \E data \in RootLists : RootOk(data)
    \/ QuietB /\ AttrNone
    \/ QuietB /\ AttrUnparsable
    \/ QuietB /\ AttrOk
    \/ QuietA /\ StartPassB
    \/ QuietA /\ QueryNoneB
    \/ QuietA /\ \E n \in 0..MaxLists : CountReply(n)
    \/ QuietA /\ \E number \in 1..MaxLists : ListReply(number)
    \/ QuietA /\ AddressMalformed
    \/ QuietA /\ \E n \in 0..MaxListCues : CueCountReply(n)
    \/ QuietA /\ \E part_number \in {0, 1} : CueReply(part_number)

\* C19: a missing count or root list aborts the pass.  When the root-list
\* query of console A or a count query of console B (the cue-list count or
\* the cue count of a cue-list) yields None, the pass ends there: that step
\* and every later step of the pass creates no cue and no cue-list and sends
\* no query; nothing has been built from a missing root list or cue-list
\* count, and the cue-list whose cue count is missing holds no cue.
C19_MissingAborts ==
    [][/\ apc' = "root_failed"
            => /\ apc \in {"root_query", "root_failed"}
               /\ qlab_cues' = EmptyDict /\ cueObjs' = <<>>
               /\ aqueries' = 1
       /\ bmissing' # ""
            => /\ bpc' = "failed"
               /\ bqueries' = bqueries
               /\ listObjs' = listObjs /\ eosObjs' = eosObjs
               /\ eos_cues' = eos_cues
       /\ bmissing' = "count"
            => /\ listObjs' = <<>> /\ eosObjs' = <<>> /\ eos_cues' = EmptyDict
               /\ bqueries' = 1
       /\ bmissing' = "cue_count"
            => listObjs'[cue_list_obj'].cue_list_dict = EmptyDict
      ]_vars

\* The cue count of the second cue-list of a pass was missing: the pass has
\* ended with the first cue-list and its cue, and the second cue-list empty.
C19_Witness ==
    /\ bpc = "failed" /\ bmissing = "cue_count"
    /\ Len(listObjs) = 2
    /\ Len(listObjs[1].cue_list_dict) = 1
    /\ Len(listObjs[2].cue_list_dict) = 0

\* The cues of console B built from a timecode text that is not 11 characters
\* long have no timecode.
AbsentTimecodeB ==
    \A j \in DOMAIN eosObjs :
        TextLen(bremote.timecodeText) # 11 => eosObjs[j].timecode = "None"

\* The cues of console A whose remote timecode-trigger text is not 11
\* characters long have no timecode: None, or the 0.0 they are built with
\* while the text has not been fetched.
AbsentTimecodeA ==
    \A i \in DOMAIN cueObjs :
        TextLen(aremote.timecodeText) # 11 => cueObjs[i].timecode \in {"None", "0.0"}

\* C20: the absent-timecode rule.  On both paths by which remote timecode
\* text reaches a cue, the construction of a console-B cue and the backfill
\* of the timecode-trigger text of a console-A cue, a text whose length is
\* not 11 leaves the timecode of the cue absent.
C20_AbsentTimecode == AbsentTimecodeB /\ AbsentTimecodeA

\* C28: the representation of no timecode.  No remote timecode text of the
\* passes is zero seconds, so every cue of the registries is one for which
\* no timecode, an invalid one or a timecode other than zero was received:
\* none of them has the timecode 0.0.
C28_NoTimecodeNotZero ==
    /\ \A i \in DOMAIN cueObjs : cueObjs[i].timecode # "0.0"
    /\ \A j \in DOMAIN eosObjs : eosObjs[j].timecode # "0.0"

SpecP == Init /\ [][NextP]_vars

(***************************************************************************)
(* Properties of the timecode conversions.                                 *)
(***************************************************************************)
\* C21: the timecode round trip.  For every fps and every valid timecode
\* text t with its frame field below fps,
\* float_to_timecode(timecode_to_float(t, fps), fps) is t.
C21_RoundTrip == tpc = "encoded" => tout = tin

SpecT == Init /\ [][NextT]_vars

(***************************************************************************)
(* Properties of the passes that follow earlier passes and registry        *)
(* operations.                                                             *)
(***************************************************************************)
\* The runs of passes over a registry that holds something: each pass is
\* answered, and between the passes add_qlab_cue (add_eos_cue) is called.
NextS ==
    \/ QuietB /\ StartPassA /\ aremote' = aremote
    \/ QuietB /\ \E data \in OpRootLists : RootOk(data)
    \/ QuietB /\ AttrOk
    \/ QuietB /\ apc \in {"idle", "done"}
              /\ \E uid \in OpUids : \E parent_cue_id \in OpUids \cup {NoId} :
                    add_qlab_cue(uid, parent_cue_id)
    \/ QuietA /\ StartPassB /\ bremote'.extraArg /\ bremote'.timecodeText = "5:00"
    \/ QuietA /\ \E n \in 0..MaxOpLists : CountReply(n)
    \/ QuietA /\ \E number \in 1..MaxOpLists : ListReply(number)
    \/ QuietA /\ \E n \in 0..MaxOpLists : CueCountReply(n)
    \/ QuietA /\ \E part_number \in {0, 1} : CueReply(part_number)
    \/ QuietA /\ bpc \in {"idle", "done"}
              /\ \E uid \in OpUidsB : \E parent_cue_id \in OpUidsB \cup {NoUid} :
                    add_eos_cue(uid, NoCue, parent_cue_id)

\* The payload of the reply to the query of the cue-list at index i
\* (cue_list_data): the index and the uid of the cue-list.
ListPayload(r, i) == <<i, <<"L", i, 0>>>>

\* The uids console B has shown to the pass: those of the cue-lists whose
\* indexed reply the pass has received, and those of the cues with part 0.
DiscoveredB ==
    {ListPayload(bremote, L - 1)[2] : L \in DOMAIN listObjs}
        \cup {cueReplies[k][2] : k \in {n \in DOMAIN cueReplies : cueReplies[n][3] = 0}}

\* The registry of console A holds one cue, built by the pass, per entry of
\* the root-list reply.
RebuiltA ==
    /\ DictKeys(qlab_cues) = ReplyUids(areply)
    /\ Len(qlab_cues) = Cardinality(ReplyUids(areply))

\* Every entry of the registry of console B is a cue-list the pass has
\* built, under the uid the pass gave it.
FromThisPassB ==
    \A i \in DOMAIN eos_cues :
        /\ IsListRef(eos_cues[i][2])
        /\ eos_cues[i][2][2] \in DOMAIN listObjs
        /\ listObjs[eos_cues[i][2][2]].uid = eos_cues[i][1]

\* When a pass completes, nothing that was registered before it is left:
\* the registry of console A is rebuilt from the reply, the registry of
\* console B holds only cue-lists of the pass.
NothingSurvives ==
    [][/\ (apc # "done" /\ apc' = "done") => RebuiltA'
       /\ (bpc # "done" /\ bpc' = "done") => FromThisPassB'
      ]_vars

\* C22: the registry is rebuilt per pass.  When a pass of a console
\* completes, the registry of that console holds exactly the cues and
\* cue-lists discovered in that pass: no entry of an earlier pass and no
\* entry added before the pass is left in it.
C22_RebuiltPerPass ==
    [][/\ (apc # "done" /\ apc' = "done") => RebuiltA'
       /\ (bpc # "done" /\ bpc' = "done")
             => /\ DictKeys(eos_cues') = DiscoveredB'
                /\ Len(eos_cues') = Cardinality(DiscoveredB')
      ]_vars

\* C25: console-B cue-list identity.  The cue-list a pass has created for
\* the index i (the i-th it created, counting from 0) has the uid that the
\* reply to the query of index i carries, not one read from the reply to
\* another query.
C25_CueListIdentity ==
    \A L \in DOMAIN listObjs :
        listObjs[L].uid = ListPayload(bremote, L - 1)[2]

\* C26: console-B double registration.  Every cue a pass has built is in
\* the cue_list_dict of its cue-list and, under its uid, in eos_cues.
C26_DoubleRegistration ==
    \A j \in DOMAIN eosObjs :
        /\ \E L \in DOMAIN listObjs :
              /\ DictHas(listObjs[L].cue_list_dict, eosObjs[j].uid)
              /\ DictGet(listObjs[L].cue_list_dict, eosObjs[j].uid) = j
        /\ DictHas(eos_cues, eosObjs[j].uid)
        /\ DictGet(eos_cues, eosObjs[j].uid) = CueRef(j)

SpecS == Init /\ [][NextS]_vars

(***************************************************************************)
(* Properties of the two passes running as concurrent tasks.               *)
(***************************************************************************)
\* CueManager.initialise creates one task per pass: the steps of the two
\* passes interleave at their awaits.  One pass per console, over small
\* replies, each query answered or not.
NextI ==
    \/ apasses = 0 /\ StartPassA /\ aremote' = aremote
    \/ RootNone
    \/ RootRejected
    \/ \E data \in OpRootLists : RootOk(data)
    \/ AttrNone
    \/ AttrUnparsable
    \/ AttrOk
    \/ bpasses = 0 /\ StartPassB /\ bremote'.extraArg /\ bremote'.timecodeText = "5:00"
    \/ QueryNoneB
    \/ \E n \in 0..MaxOpLists : CountReply(n)
    \/ \E number \in 1..MaxOpLists : ListReply(number)
    \/ AddressMalformed
    \/ \E n \in 0..MaxOpLists : CueCountReply(n)
    \/ \E part_number \in {0, 1} : CueReply(part_number)

SpecI == Init /\ [][NextI]_vars

(***************************************************************************)
(* Properties of the passes with respect to the connection manager.        *)
(***************************************************************************)
\* OSCHandler.__init__ schedules run and returns; a CueManager is built on
\* the handler and initialise creates the tasks of the passes.  Nothing in
\* initialise, the passes or query reads the state of the connection
\* manager, so the steps of run and the first steps of the passes
\* interleave freely.
NextL ==
    \/ NextC
    \/ apasses = 0 /\ StartPassA /\ aremote' = aremote
    \/ RootNone
    \/ bpasses = 0 /\ StartPassB /\ bremote'.extraArg /\ bremote'.timecodeText = "5:00"
    \/ bpc = "count" /\ QueryNoneB

SpecL == Init /\ [][NextL]_vars

=============================================================================
